---- MODULE Spec2Model ----
(***************************************************************************)
(* The asynchronous VLM curation / merge engine of SpikeAgent:             *)
(*   src/src/spikeagent/curation/vlm_curation/async_vlm.py  (curation)     *)
(*   src/src/spikeagent/curation/vlm_merge/async_vlm.py     (merge)        *)
(* One event loop runs the batch: run_in_batch releases the units in       *)
(* chunks, every unit fans out to its reviewers, every reviewer to its     *)
(* per-feature (and metrics) calls, then issues its synthesis call.  Every *)
(* model invocation is a suspension point that returns or raises.          *)
(* Quality scores are held in hundredths (0.53 is 53).                     *)
(***************************************************************************)
EXTENDS Integers, Sequences, FiniteSets, TLC

\* ---------------------------------------------------------------- bounds
MaxUnits == 2
MaxFeatures == 2
MaxWorkers == 6
MaxFaulty == 1
MaxFaultyCalls == 9
MaxShots == 2
MaxScripted == 1

\* ------------------------------------------------------ program constants
max_retries == 10
\* the argument of asyncio.sleep between two attempts
retry_delay == 1
NumReviewers == 3
ReviewerDivisor == 3

Variants == {"curation", "merge"}

Max(S) == CHOOSE x \in S : \A y \in S : y <= x

Min(a, b) == IF a < b THEN a ELSE b

Range(seq) == {seq[j] : j \in 1..Len(seq)}

RECURSIVE Perms(_)
Perms(S) ==
    IF S = {} THEN {<<>>}
    ELSE UNION {{<<x>> \o p : p \in Perms(S \ {x})} : x \in S}

\* the index of the artifact table: the identifiers, in table order
IdTables == UNION {Perms(1..n) : n \in 1..MaxUnits}

VARIABLES
    variant,      \* which engine runs: "curation" or "merge"
    entry,        \* the function the caller called: "run_vlm" or "async_run"
    unit_ids,     \* encoded_img_df.index.tolist()
    len_feature,  \* len(features)
    has_metrics,  \* metrics is not None (curation only)
    with_metrics, \* run_vlm_curation: argument with_metrics
    metrics_index,\* metrics.index.tolist() of the table async_run receives
    good_ids,     \* few-shot identifiers: good_ids / good_merge_groups
    bad_ids,      \* few-shot identifiers: bad_ids / bad_merge_groups
    fewshot_messages, \* what create_fewshot_messages returned, per feature
    num_workers,  \* the worker budget
    pc,           \* position of async_run / run_in_batch
    batch_size,   \* run_in_batch.batch_size
    i,            \* run_in_batch: first task of the current chunk (1-based)
    permits,      \* free permits of run_in_batch.semaphore
    unit,         \* limited_task of each unit: "pending", "running", "done"
    call,         \* dispatcher calls of the units in flight
    report,       \* text returned by the finished per-feature/metrics calls
    review,       \* what process_unit returned, per (unit, reviewer)
    unitRes,      \* what limited_task returned, per finished unit
    progress,     \* progress_bar.n
    results,      \* run_in_batch.results
    results_df,   \* the table async_run returns
    faults_left,  \* how many more calls the model handle may start failing
    input_message,\* process_feature: the message list built per (unit, feature)
    reviews_in,   \* aggregate_results: argument reviews
    agg_out,      \* aggregate_results: returned record
    outcomes      \* a scripted model handle: per call, how many of its
                  \* invocations raise before one returns; <<>> if unscripted

vars == <<variant, entry, unit_ids, len_feature, has_metrics, with_metrics,
          metrics_index, good_ids, bad_ids, fewshot_messages, num_workers, pc,
          batch_size, i, permits, unit, call, report, review, unitRes,
          progress, results, results_df, faults_left, input_message,
          reviews_in, agg_out, outcomes>>

batchVars == <<variant, entry, unit_ids, len_feature, has_metrics, with_metrics,
               metrics_index, good_ids, bad_ids, fewshot_messages, num_workers,
               pc, batch_size, i, permits, unit, call, report, review, unitRes,
               progress, results, results_df, faults_left>>

aggVars == <<input_message, reviews_in, agg_out, outcomes>>

\* ------------------------------------------------------------ the records
\* a degraded reviewer reported as an ordinary Bad vote
SentinelJudgmentBad ==
    [classification |-> "Bad", unit_quality_score |-> 0, reasoning |-> ""]

\* UnitCuration returned when the synthesis call ran out of retries
SentinelJudgment ==
    [classification |-> "Error", unit_quality_score |-> 0, reasoning |-> ""]

\* the text a per-feature or metrics call returns after its last failure
SentinelReport == ""

\* the merge record returned when the synthesis call ran out of retries
SentinelMergeRecord(group_id) ==
    [group_id |-> group_id, merge_type |-> "", merge_units |-> <<>>,
     reasoning |-> "", report |-> <<>>]

\* merge_unit_groups[group_id]: the units of a candidate group
MergeUnitGroup(group_id) == <<2 * group_id - 1, 2 * group_id>>

\* what the mocked model answers
GenuineReport(k) == "report-" \o ToString(k)
GenuineJudgments ==
    {[classification |-> "Good", unit_quality_score |-> 80, reasoning |-> "ok"]}
GenuineMergeJudgments ==
    {[merge_type |-> "merge", reasoning |-> "same"]}

\* ------------------------------------------------------------ aggregation
RECURSIVE SumSeq(_)
SumSeq(s) == IF s = <<>> THEN 0 ELSE Head(s) + SumSeq(Tail(s))

\* the mean truncated instead of rounded
RoundDown(num, den) == num \div den

\* round(num/den) to the nearest integer, ties to even: Python's round
RoundHalfEven(num, den) ==
    LET q == num \div den
        r == num % den
    IN  IF 2 * r < den THEN q
        ELSE IF 2 * r > den THEN q + 1
        ELSE IF q % 2 = 0 THEN q ELSE q + 1

\* the mean over the reviewers that gave a score above 0 only
AverageOfScored(scores) ==
    LET scored == SelectSeq(scores, LAMBDA q : q > 0)
    IN  IF scored = <<>> THEN 0 ELSE RoundHalfEven(SumSeq(scored), Len(scored))

\* round(mean(unit_quality_scores), 2), in hundredths
AverageScore(scores) == RoundHalfEven(SumSeq(scores), Len(scores))

\* every vote that is not Bad counted as Good
GoodCountNotBad(classifications) ==
    Cardinality({j \in 1..Len(classifications) : classifications[j] # "Bad"})

\* Counter(classifications)["Good"]
GoodCount(classifications) ==
    Cardinality({j \in 1..Len(classifications) : classifications[j] = "Good"})

MajorityClassification(classifications) ==
    IF GoodCount(classifications) > 1 THEN "Good" ELSE "Bad"

aggregate_results(reviews, unit_id) ==
    LET unit_quality_scores ==
            [j \in 1..Len(reviews) |-> reviews[j].response.unit_quality_score]
        classifications ==
            [j \in 1..Len(reviews) |-> reviews[j].response.classification]
        rids == {reviews[j].reviewer_id : j \in 1..Len(reviews)}
        last(rid) == reviews[CHOOSE j \in 1..Len(reviews) :
                        /\ reviews[j].reviewer_id = rid
                        /\ \A m \in (j+1)..Len(reviews) :
                              reviews[m].reviewer_id # rid]
    IN  [unit_ids |-> unit_id,
         average_score |-> AverageScore(unit_quality_scores),
         final_classification |-> MajorityClassification(classifications),
         combined_reasoning |->
            [j \in 1..Len(reviews) |->
                <<reviews[j].reviewer_id, reviews[j].response.reasoning>>],
         reviewer_score |->
            [rid \in rids |-> last(rid).response.unit_quality_score],
         reviewer_class |->
            [rid \in rids |-> last(rid).response.classification]]

\* --------------------------------------------------------- the result table
RowId(rec) == IF variant = "curation" THEN rec.unit_ids ELSE rec.group_id

RECURSIVE InsertRow(_, _)
InsertRow(rec, s) ==
    IF s = <<>> THEN <<rec>>
    ELSE IF RowId(rec) < RowId(Head(s)) THEN <<rec>> \o s
    ELSE <<Head(s)>> \o InsertRow(rec, Tail(s))

\* the table left in the order of the result list
SortValuesSkipped(s) == s

RECURSIVE SortValues(_)
\* results_df.sort_values(by=<identifier column>, ascending=True)
SortValues(s) ==
    IF s = <<>> THEN <<>>
    ELSE InsertRow(s[Len(s)], SortValues(SubSeq(s, 1, Len(s) - 1)))

\* pd.DataFrame(results), sorted, identifier column made the index
BuildTable(res) ==
    LET sorted == SortValues(res)
    IN  [index |-> [j \in 1..Len(sorted) |-> RowId(sorted[j])],
         rows |-> sorted]

EmptyTable == [index |-> <<>>, rows |-> <<>>]

\* ------------------------------------------------------------ the scheduler
\* batch_size = num_workers // (3 * len_feature), in both engines
BatchSize(v, nw, nf) == nw \div (ReviewerDivisor * nf)

\* the three-reviewer ensemble in both engines
ReviewersEnsemble == 1..NumReviewers

\* reviewers = [1, 2, 3] in curation; merge runs process_unit once
Reviewers == IF variant = "curation" THEN 1..NumReviewers ELSE {1}

\* the calls one reviewer gathers: the features, then the metrics call
GatheredSlots == 1..(len_feature + (IF has_metrics THEN 1 ELSE 0))

SynthSlot == 0

Units == {unit_ids[j] : j \in 1..Len(unit_ids)}

\* every remaining task gathered at once
ChunkAll == [j \in 1..(Len(unit_ids) - i + 1) |-> unit_ids[i + j - 1]]

\* tqdm(total=len(encoded_img_df))
ProgressTotal == Len(unit_ids)

\* tasks[i:i + batch_size]
Chunk == [j \in 1..(Min(i + batch_size - 1, Len(unit_ids)) - i + 1) |->
             unit_ids[i + j - 1]]
ChunkUnits == {Chunk[j] : j \in 1..Len(Chunk)}

InFlightCalls == {c \in DOMAIN call : call[c].st = "inflight"}
InFlightUnits == {u \in Units : unit[u] = "running"}

\* a call whose first invocation has just been issued with input_message
Issued(input) ==
    [st |-> "inflight", attempt |-> 0, inv |-> 1, pauses |-> <<>>,
     input |-> input]

\* f with the entries of g added (g wins)
Extend(f, g) ==
    [x \in (DOMAIN f) \cup (DOMAIN g) |-> IF x \in DOMAIN g THEN g[x] ELSE f[x]]

\* f without the entries of unit u
Purge(f, u) == [x \in {y \in DOMAIN f : y[1] # u} |-> f[x]]

NoReviews == [reviews |-> <<>>, unit_id |-> 0, degraded |-> {}]

TypeOK ==
    /\ variant \in Variants
    /\ pc \in {"run_vlm", "async_run", "start", "dispatch", "await", "gathered",
              "returned", "raised"}
    /\ progress \in 0..MaxUnits
    /\ permits \in 0..num_workers

\* dispatcher calls one chunk makes: units x reviewers x (gathered calls + 1)
CallsPerChunk(v, nw, nf, metrics) ==
    BatchSize(v, nw, nf) * (IF v = "curation" THEN NumReviewers ELSE 1)
        * (nf + (IF metrics THEN 1 ELSE 0) + 1)

\* the model handle fails in at most MaxFaulty calls of a run, and only in
\* runs whose chunks make at most MaxFaultyCalls dispatcher calls
FaultBudget(v, nw, nf, metrics) ==
    IF CallsPerChunk(v, nw, nf, metrics) <= MaxFaultyCalls THEN MaxFaulty ELSE 0

\* the worker budgets: those too small for one unit, and the exact multiples
\* of the calls of one unit
Budgets(nf) ==
    {nw \in 1..MaxWorkers :
        nw < ReviewerDivisor * nf \/ nw % (ReviewerDivisor * nf) = 0}

\* ------------------------------------------------------------ the messages
\* features, in the order of the requested list
Features == 1..len_feature

\* the columns of encoded_img_df: run_vlm_curation passes
\* img_df.loc[unit_ids_, features], run_vlm_merge passes img_df whole
Columns == IF variant = "curation" THEN 1..len_feature ELSE 1..MaxFeatures

\* encoded_img_df.loc[id, f]: an encoded image payload
Payload(id, f) == [id |-> id, cols |-> <<f>>, form |-> "encoded"]

NoImage == [id |-> 0, cols |-> <<>>, form |-> "none"]

\* the first image of the row forwarded as it is
ForwardFirstImage(id, columns) == [id |-> id, cols |-> <<1>>, form |-> "encoded"]

\* the composite built from every image of a row of the table: each payload
\* is base64-decoded, opened, resized, pasted, and the strip re-encoded as jpeg
concat_images_horizontally(id, columns) ==
    [id |-> id, cols |-> [j \in 1..Cardinality(columns) |-> j],
     form |-> "jpeg-composite"]

\* {"type": "text", "text": ...} and {"type": "image_url", "image_url": ...}
TextPart(text) == [type |-> "text", text |-> text, image |-> NoImage]
ImagePart(img) == [type |-> "image_url", text |-> <<>>, image |-> img]

HumanMessage(content) == [role |-> "human", content |-> content]

FeatureKey(f) == "feature-" \o ToString(f)

\* system_messages[key]: the one system message build_prompt_messages made
SystemMessages(key) == <<[role |-> "system", content |-> <<TextPart(<<key>>)>>]>>

\* one few-shot message: the caption, then the listed artifacts in list order
FewshotMessage(caption, ids, f) ==
    HumanMessage(<<TextPart(<<caption>>)>>
                 \o [j \in 1..Len(ids) |-> ImagePart(Payload(ids[j], f))])

\* the bad examples put before the good ones
FewshotBadFirst(f) ==
    (IF Len(bad_ids) > 0
     THEN <<FewshotMessage("These are Bad examples", bad_ids, f)>> ELSE <<>>)
    \o (IF Len(good_ids) > 0
        THEN <<FewshotMessage("These are Good examples", good_ids, f)>> ELSE <<>>)

\* the few-shot messages of one feature: the good examples, then the bad ones
create_fewshot_messages(f) ==
    (IF Len(good_ids) > 0
     THEN <<FewshotMessage("These are Good examples", good_ids, f)>> ELSE <<>>)
    \o (IF Len(bad_ids) > 0
        THEN <<FewshotMessage("These are Bad examples", bad_ids, f)>> ELSE <<>>)

\* the exemplars looked up in the table of all units of the analyzer
FewshotKeyErrorWholeTable ==
    \E id \in Range(good_ids) \cup Range(bad_ids) : id \notin 1..MaxUnits


\* encoded_img_df.loc[id, f] raises KeyError for an id outside the table
FewshotKeyError ==
    \E id \in Range(good_ids) \cup Range(bad_ids) : id \notin Range(unit_ids)

\* process_feature: input_message = system_msg + fewshot_msg + img_message
FeatureInput(u, f) ==
    SystemMessages(FeatureKey(f)) \o fewshot_messages[f]
    \o <<HumanMessage(<<TextPart(
                          IF variant = "curation"
                          THEN <<"Assess the quality of this feature image">>
                          ELSE <<"Assess the quality of this", FeatureKey(f),
                                 "of unit list", ToString(MergeUnitGroup(u))>>),
                        ImagePart(Payload(u, f))>>)>>

\* the quality metrics the analyzer holds, in millionths
MetricNames == <<"snr", "isi_violations_ratio", "l_ratio">>
MetricValue(id, k) == 1234567 * id + 5 * k
QualityMetrics(id) ==
    [k \in 1..Len(MetricNames) |-> [name |-> MetricNames[k],
                                     value |-> MetricValue(id, k)]]

\* the metrics table async_run receives: one row per label of its index
MetricsTable ==
    [j \in 1..Len(metrics_index) |->
        [label |-> metrics_index[j], row |-> QualityMetrics(metrics_index[j])]]

\* the first row of the table, whatever the label
LocFirst(table, id) == table[1].row

\* metrics.loc[unit_id]: the row labelled unit_id
Loc(table, id) ==
    table[CHOOSE j \in 1..Len(table) : table[j].label = id].row

\* f"{v:.5f}": five decimals, from millionths to hundred-thousandths
Fixed5(v) == RoundHalfEven(v, 10)

\* ",".join(f"{k}: {v:.5f}" for k, v in qm.items())
MetricsText(qm) ==
    [k \in 1..Len(qm) |-> qm[k].name \o ": " \o ToString(Fixed5(qm[k].value))]

\* process_metrics: input_message = system_msg + metrics_msg
MetricsInput(u) ==
    SystemMessages("metrics")
    \o <<HumanMessage(<<TextPart(<<"These are the quality metrics of this unit">>
                                 \o MetricsText(Loc(MetricsTable, u)))>>)>>

\* metrics.loc[unit_id] raises KeyError for a unit outside the metrics table
MetricsKeyError(u) == has_metrics /\ u \notin Range(metrics_index)

\* the input of a gathered call: the features first, the metrics call last
GatheredInput(c) ==
    IF c[3] <= len_feature THEN FeatureInput(c[1], c[3]) ELSE MetricsInput(c[1])

\* the few-shot lists a caller may pass
ShotLists == UNION {[1..n -> 1..MaxUnits] : n \in 0..MaxShots}

\* a metrics table that is not aligned with the units: one row short, one
\* row too many, or as long but with a foreign label for the first unit
MisalignedIndexes(ids) ==
    {SubSeq(ids, 1, Len(ids) - 1), ids \o <<MaxUnits + 1>>,
     [ids EXCEPT ![1] = MaxUnits + 1]}

\* the state at the call of run_vlm_curation / run_vlm_merge, or at a direct
\* call of the curation async_run with a metrics table of the caller
InitRun ==
    /\ variant \in Variants
    /\ unit_ids \in IdTables
    /\ len_feature \in 1..MaxFeatures
    /\ with_metrics \in (IF variant = "curation" THEN BOOLEAN ELSE {FALSE})
    /\ num_workers \in Budgets(len_feature)
    /\ \/ /\ entry = "run_vlm"
          /\ pc = "run_vlm"
          /\ has_metrics = FALSE
          /\ metrics_index = <<>>
       \/ /\ entry = "async_run"
          /\ pc = "async_run"
          /\ variant = "curation"
          /\ with_metrics
          /\ has_metrics = TRUE
          /\ metrics_index \in MisalignedIndexes(unit_ids)
    /\ fewshot_messages = <<>>
    /\ input_message = <<>>
    /\ batch_size = 0
    /\ i = 1
    /\ permits = 0
    /\ unit = [u \in Units |-> "pending"]
    /\ call = <<>>
    /\ report = <<>>
    /\ review = <<>>
    /\ unitRes = <<>>
    /\ progress = 0
    /\ results = <<>>
    /\ results_df = EmptyTable
    /\ reviews_in = NoReviews
    /\ agg_out = <<>>

\* a batch without few-shot lists, on a model handle that answers freely and
\* starts failing in at most FaultBudget calls
Init ==
    /\ InitRun
    /\ good_ids = <<>>
    /\ bad_ids = <<>>
    /\ faults_left = FaultBudget(variant, num_workers, len_feature, with_metrics)
    /\ outcomes = <<>>

\* run_vlm_curation / run_vlm_merge up to the call of async_run: the metrics
\* of the analyzer are taken only with with_metrics, and for the units processed
RunVlm ==
    /\ pc = "run_vlm"
    /\ has_metrics' = with_metrics
    /\ metrics_index' = IF with_metrics THEN unit_ids ELSE <<>>
    /\ pc' = "async_run"
    /\ UNCHANGED <<variant, entry, unit_ids, len_feature, with_metrics, good_ids,
                   bad_ids, fewshot_messages, num_workers, batch_size, i,
                   permits, unit, call, report, review, unitRes, progress,
                   results, results_df, faults_left>>
    /\ UNCHANGED aggVars

\* the length check passed whatever the lengths
LengthAssertSkipped == FALSE

\* curation async_run: assert (len(encoded_img_df) == len(metrics)) fails
LengthAssertFails ==
    variant = "curation" /\ has_metrics /\ Len(unit_ids) # Len(metrics_index)

\* async_run up to asyncio.run: the assert (curation), create_fewshot_messages
AsyncRun ==
    /\ pc = "async_run"
    /\ IF LengthAssertFails \/ FewshotKeyError
       THEN pc' = "raised" /\ UNCHANGED fewshot_messages
       ELSE /\ fewshot_messages' = [f \in Features |-> create_fewshot_messages(f)]
            /\ pc' = "start"
    /\ UNCHANGED <<variant, entry, unit_ids, len_feature, has_metrics, with_metrics,
                   metrics_index, good_ids, bad_ids, num_workers, batch_size, i,
                   permits, unit, call, report, review, unitRes, progress,
                   results, results_df, faults_left>>
    /\ UNCHANGED aggVars

\* a semaphore that lets one task in at a time
SemaphoreOfOne(value) == 1

\* asyncio.Semaphore(value): the permits of a new semaphore
Semaphore(value) == value


\* run_in_batch up to its for loop: range(0, len(tasks), 0) raises ValueError
EnterBatch ==
    /\ pc = "start"
    /\ batch_size' = BatchSize(variant, num_workers, len_feature)
    /\ permits' = Semaphore(num_workers)
    /\ i' = 1
    /\ pc' = IF batch_size' = 0 THEN "raised" ELSE "dispatch"
    /\ UNCHANGED <<variant, entry, unit_ids, len_feature, has_metrics, with_metrics,
                   metrics_index, good_ids, bad_ids, fewshot_messages, num_workers,
                   unit, call, report, review, unitRes, progress, results,
                   results_df, faults_left>>
    /\ UNCHANGED aggVars

\* every reviewer issues its synthesis call together with its gathered calls
StartChunkWithSynthesis ==
    /\ pc = "dispatch"
    /\ permits >= Len(Chunk)
    /\ unit' = [u \in Units |-> IF u \in ChunkUnits THEN "running" ELSE unit[u]]
    /\ permits' = permits - Len(Chunk)
    /\ call' = Extend(call,
                 [c \in ChunkUnits \X Reviewers \X (GatheredSlots \cup {0}) |->
                     Issued(SystemMessages("head"))])
    /\ pc' = "await"
    /\ UNCHANGED <<variant, entry, unit_ids, len_feature, has_metrics,
                   with_metrics, metrics_index, good_ids, bad_ids,
                   fewshot_messages, num_workers, batch_size, i, report, review,
                   unitRes, progress, results, results_df, faults_left>>
    /\ UNCHANGED aggVars

\* asyncio.gather(*batch): every limited_task of the chunk takes a permit,
\* starts its reviewers, and every reviewer issues its gathered calls; the
\* KeyError of a process_metrics whose unit has no metrics row ends the batch
StartChunk ==
    /\ pc = "dispatch"
    /\ permits >= Len(Chunk)
    /\ unit' = [u \in Units |-> IF u \in ChunkUnits THEN "running" ELSE unit[u]]
    /\ permits' = permits - Len(Chunk)
    /\ call' = Extend(call,
                 [c \in {d \in ChunkUnits \X Reviewers \X GatheredSlots :
                            d[3] <= len_feature \/ ~MetricsKeyError(d[1])} |->
                     Issued(GatheredInput(c))])
    /\ pc' = IF \E u \in ChunkUnits : MetricsKeyError(u)
             THEN "raised" ELSE "await"
    /\ UNCHANGED <<variant, entry, unit_ids, len_feature, has_metrics, with_metrics,
                   metrics_index, good_ids, bad_ids, fewshot_messages, num_workers,
                   batch_size, i, report, review, unitRes, progress, results,
                   results_df, faults_left>>
    /\ UNCHANGED aggVars

\* the pieces of text process_unit writes itself
Header == "These are the quality assessment report from Visual Language Model"
NewLine == "\n"
\* "-"*50
Rule == "--------------------------------------------------"

\* sep.join(items), a text being the sequence of its pieces
RECURSIVE Join(_, _)
Join(sep, items) ==
    IF Len(items) = 0 THEN <<>>
    ELSE IF Len(items) = 1 THEN items[1]
    ELSE items[1] \o sep \o Join(sep, Tail(items))

\* content of process_unit: final_input is the header followed by the
\* gathered responses in the order of the gathered tasks; curation puts the
\* rule after the header and joins with "\n", merge joins with "\n" rule "\n"
Content(u, r) ==
    LET responses == [k \in GatheredSlots |-> <<report[<<u, r, k>>]>>]
    IN  IF variant = "curation"
        THEN Join(<<NewLine>>, <<<<Header, NewLine, Rule>>>> \o responses)
        ELSE Join(<<NewLine, Rule, NewLine>>, <<<<Header>>>> \o responses)

\* process_unit: the messages of the synthesis call: the head context, in
\* merge the composite of the row's images, then the report message
SynthInput(u, r) ==
    SystemMessages("head")
    \o (IF variant = "merge"
        THEN <<HumanMessage(<<TextPart(<<"This is the feature image given of unit list",
                                        ToString(MergeUnitGroup(u))>>),
                              ImagePart(concat_images_horizontally(u, Columns))>>)>>
        ELSE <<>>)
    \o <<HumanMessage(<<TextPart(Content(u, r))>>)>>

\* the loop gives up one attempt early
ExhaustedEarly(attempt) == attempt = max_retries - 1

\* a pause that grows with the number of failures
PauseLinear(attempt) == attempt * retry_delay

\* the length of the pause after the attempt-th failure: asyncio.sleep(1)
Pause(attempt) == retry_delay

\* the retry loop gives up when attempt == max_retries
Exhausted(attempt) == attempt = max_retries

\* the progress bar advanced at the end of every sub-call
CompleteGatheredCounting(c, newcall, text) ==
    /\ call' = newcall
    /\ report' = Extend(report, c :> text)
    /\ progress' = progress + 1
    /\ UNCHANGED <<pc, unit, permits, review, unitRes>>

\* a per-feature or metrics call ends with the text it returns
CompleteGathered(c, newcall, text) ==
    /\ call' = newcall
    /\ report' = Extend(report, c :> text)
    /\ UNCHANGED <<pc, unit, permits, review, unitRes, progress>>

\* the last failure of the synthesis call is re-raised instead of absorbed
CompleteSynthCurationRaising(c, newcall, judgment) ==
    /\ call' = newcall
    /\ IF judgment = SentinelJudgment
       THEN pc' = "raised" /\ UNCHANGED review
       ELSE /\ review' = Extend(review, <<c[1], c[2]>> :>
                                   [reviewer_id |-> c[2], response |-> judgment])
            /\ UNCHANGED pc
    /\ UNCHANGED <<unit, permits, report, unitRes, progress>>

\* curation process_unit returns {"reviewer_id", "response"} to the gather of
\* async_run_with_reviewers
CompleteSynthCuration(c, newcall, judgment) ==
    /\ call' = newcall
    /\ review' = Extend(review,
                   <<c[1], c[2]>> :> [reviewer_id |-> c[2], response |-> judgment])
    /\ UNCHANGED <<pc, unit, permits, report, unitRes, progress>>

\* the curation record filed under the rank at which its task completed
FinishTaskByRank(u, rec) ==
    /\ unitRes' = Extend(unitRes, u :> [rec EXCEPT !.unit_ids = progress + 1])
    /\ unit' = [unit EXCEPT ![u] = "done"]
    /\ progress' = progress + 1
    /\ permits' = permits + 1
    /\ call' = Purge(call, u)
    /\ report' = Purge(report, u)
    /\ review' = Purge(review, u)
    /\ UNCHANGED pc

\* limited_task after its unit's result is known: progress_bar.update(1),
\* the permit is released, the task returns the result
FinishTask(u, rec) ==
    /\ unitRes' = Extend(unitRes, u :> rec)
    /\ unit' = [unit EXCEPT ![u] = "done"]
    /\ progress' = progress + 1
    /\ permits' = permits + 1
    /\ call' = Purge(call, u)
    /\ report' = Purge(report, u)
    /\ review' = Purge(review, u)
    /\ UNCHANGED pc

\* merge process_unit returns the group's record to limited_task
MergeRecord(group_id, judgment) ==
    [group_id |-> group_id, merge_type |-> judgment.merge_type,
     merge_units |-> MergeUnitGroup(group_id),
     reasoning |-> judgment.reasoning, report |-> Content(group_id, 1)]

\* the judgment a scripted model handle returns for the synthesis call c
ScriptedJudgment(c) ==
    [classification |-> IF c[2] = 1 THEN "Bad" ELSE "Good",
     unit_quality_score |-> 10 * c[1] + c[2],
     reasoning |-> "unit " \o ToString(c[1]) \o " by " \o ToString(c[2])]

\* what the structured synthesis invocation of call c may return
Answers(c) ==
    IF DOMAIN outcomes = {} THEN GenuineJudgments ELSE {ScriptedJudgment(c)}

\* whether the current invocation of call c may raise (fails) or return
Scripted(c, fails) ==
    IF DOMAIN outcomes = {} THEN TRUE
    ELSE fails <=> call[c].inv <= outcomes[c]

\* model.ainvoke / structured_llm.ainvoke returns a response
Return(c) ==
    /\ pc = "await"
    /\ c \in DOMAIN call
    /\ call[c].st = "inflight"
    /\ Scripted(c, FALSE)
    /\ IF c[3] # SynthSlot
       THEN CompleteGathered(c, [call EXCEPT ![c].st = "done"],
                             GenuineReport(c[3]))
       ELSE IF variant = "curation"
       THEN \E j \in Answers(c) :
               CompleteSynthCuration(c, [call EXCEPT ![c].st = "done"], j)
       ELSE \E j \in GenuineMergeJudgments :
               FinishTask(c[1], MergeRecord(c[1], j))
    /\ UNCHANGED <<variant, entry, unit_ids, len_feature, has_metrics, with_metrics,
                   metrics_index, good_ids, bad_ids, fewshot_messages, num_workers,
                   batch_size, i, results, results_df, faults_left>>
    /\ UNCHANGED aggVars

\* one attempt counter shared by the calls of a unit that are still running
NextAttemptShared(c) ==
    1 + Max({call[d].attempt :
               d \in {x \in DOMAIN call : x[1] = c[1] /\ call[x].st # "done"}})

\* attempt += 1 on the counter local to the call
NextAttempt(c) == call[c].attempt + 1

\* model.ainvoke / structured_llm.ainvoke raises: the except branch
Raise(c) ==
    /\ pc = "await"
    /\ c \in DOMAIN call
    /\ call[c].st = "inflight"
    /\ Scripted(c, TRUE)
    /\ IF call[c].attempt > 0
       THEN UNCHANGED faults_left
       ELSE /\ faults_left > 0
            /\ faults_left' = faults_left - 1
    /\ LET attempt == NextAttempt(c)
           given_up == [call EXCEPT ![c].st = "done", ![c].attempt = attempt]
       IN  IF ~Exhausted(attempt)
           THEN /\ call' = [call EXCEPT ![c].st = "sleep",
                                        ![c].attempt = attempt,
                                        ![c].pauses = Append(@, Pause(attempt))]
                /\ UNCHANGED <<pc, unit, permits, report, review, unitRes,
                               progress>>
           ELSE IF c[3] # SynthSlot
           THEN CompleteGathered(c, given_up, SentinelReport)
           ELSE IF variant = "curation"
           THEN CompleteSynthCuration(c, given_up, SentinelJudgment)
           ELSE FinishTask(c[1], SentinelMergeRecord(c[1]))
    /\ UNCHANGED <<variant, entry, unit_ids, len_feature, has_metrics, with_metrics,
                   metrics_index, good_ids, bad_ids, fewshot_messages, num_workers,
                   batch_size, i, results, results_df>>
    /\ UNCHANGED aggVars

\* asyncio.sleep(1) is over: the while loop invokes the model again
Retry(c) ==
    /\ pc = "await"
    /\ c \in DOMAIN call
    /\ call[c].st = "sleep"
    /\ call' = [call EXCEPT ![c].st = "inflight", ![c].inv = @ + 1]
    /\ UNCHANGED <<variant, entry, unit_ids, len_feature, has_metrics, with_metrics,
                   metrics_index, good_ids, bad_ids, fewshot_messages, num_workers,
                   pc, batch_size, i, permits, unit, report, review, unitRes,
                   progress, results, results_df, faults_left>>
    /\ UNCHANGED aggVars

\* the gather of process_unit never resumes its awaiter
GatherNever(u, r) == FALSE

\* `await asyncio.gather(*tasks)` of process_unit is over: every gathered call
\* has returned its text
GatherDone(u, r) == \A k \in GatheredSlots : <<u, r, k>> \in DOMAIN report

\* process_unit after `await asyncio.gather(*tasks)`: the synthesis call
StartSynthesis(u, r) ==
    /\ pc = "await"
    /\ u \in Units
    /\ r \in Reviewers
    /\ unit[u] = "running"
    /\ GatherDone(u, r)
    /\ <<u, r, SynthSlot>> \notin DOMAIN call
    /\ call' = Extend(call, <<u, r, SynthSlot>> :> Issued(SynthInput(u, r)))
    /\ UNCHANGED <<variant, entry, unit_ids, len_feature, has_metrics, with_metrics,
                   metrics_index, good_ids, bad_ids, fewshot_messages, num_workers,
                   pc, batch_size, i, permits, unit, report, review, unitRes,
                   progress, results, results_df, faults_left>>
    /\ UNCHANGED aggVars

\* the reviews in the reverse of the order of the tasks
GatherReviewsReversed(u) ==
    [r \in 1..NumReviewers |-> review[<<u, NumReviewers + 1 - r>>]]

\* reviews = await asyncio.gather(*tasks): in the order of the tasks
GatherReviews(u) == [r \in 1..NumReviewers |-> review[<<u, r>>]]

\* async_run_with_reviewers after `await asyncio.gather(*tasks)`, then the
\* rest of limited_task
FinishUnit(u) ==
    /\ pc = "await"
    /\ variant = "curation"
    /\ u \in Units
    /\ unit[u] = "running"
    /\ \A r \in Reviewers : <<u, r>> \in DOMAIN review
    /\ FinishTask(u, aggregate_results(GatherReviews(u), u))
    /\ UNCHANGED <<variant, entry, unit_ids, len_feature, has_metrics, with_metrics,
                   metrics_index, good_ids, bad_ids, fewshot_messages, num_workers,
                   batch_size, i, results, results_df, faults_left>>
    /\ UNCHANGED aggVars

\* the results of a chunk (1-based positions `from` onwards) that are known
RECURSIVE KnownResults(_)
KnownResults(from) ==
    IF from > Len(Chunk) THEN <<>>
    ELSE (IF Chunk[from] \in DOMAIN unitRes THEN <<unitRes[Chunk[from]]>> ELSE <<>>)
         \o KnownResults(from + 1)

\* the loop goes on as soon as one task of the chunk has returned
CollectChunkEarly ==
    /\ pc = "await"
    /\ \E u \in ChunkUnits : unit[u] = "done"
    /\ results' = results \o KnownResults(1)
    /\ i' = i + batch_size
    /\ pc' = IF i' > Len(unit_ids) THEN "gathered" ELSE "dispatch"
    /\ UNCHANGED <<variant, entry, unit_ids, len_feature, has_metrics,
                   with_metrics, metrics_index, good_ids, bad_ids,
                   fewshot_messages, num_workers, batch_size, permits, unit, call,
                   report, review, unitRes, progress, results_df, faults_left>>
    /\ UNCHANGED aggVars

\* results.extend(await asyncio.gather(*batch)), then the next i of the loop
CollectChunk ==
    /\ pc = "await"
    /\ \A u \in ChunkUnits : unit[u] = "done"
    /\ results' = results \o [j \in 1..Len(Chunk) |-> unitRes[Chunk[j]]]
    /\ i' = i + batch_size
    /\ pc' = IF i' > Len(unit_ids) THEN "gathered" ELSE "dispatch"
    /\ UNCHANGED <<variant, entry, unit_ids, len_feature, has_metrics, with_metrics,
                   metrics_index, good_ids, bad_ids, fewshot_messages, num_workers,
                   batch_size, permits, unit, call, report, review, unitRes,
                   progress, results_df, faults_left>>
    /\ UNCHANGED aggVars

\* async_run after asyncio.run: DataFrame, sort_values, set_index, return
ReturnTable ==
    /\ pc = "gathered"
    /\ results_df' = BuildTable(results)
    /\ pc' = "returned"
    /\ UNCHANGED <<variant, entry, unit_ids, len_feature, has_metrics, with_metrics,
                   metrics_index, good_ids, bad_ids, fewshot_messages, num_workers,
                   batch_size, i, permits, unit, call, report, review, unitRes,
                   progress, results, faults_left>>
    /\ UNCHANGED aggVars

CallIds == (1..MaxUnits) \X (1..NumReviewers) \X (0..(MaxFeatures + 1))

Next ==
    \/ RunVlm
    \/ AsyncRun
    \/ EnterBatch
    \/ StartChunk
    \/ \E c \in CallIds : Return(c)
    \/ \E c \in CallIds : Raise(c)
    \/ \E c \in CallIds : Retry(c)
    \/ \E u \in 1..MaxUnits, r \in 1..NumReviewers : StartSynthesis(u, r)
    \/ \E u \in 1..MaxUnits : FinishUnit(u)
    \/ CollectChunk
    \/ ReturnTable

Spec == Init /\ [][Next]_vars

\* the calls a run makes
RunCalls == Units \X Reviewers \X (GatheredSlots \cup {SynthSlot})

\* the scripts of a model handle: every call gets the number of its failing
\* invocations; at most MaxScripted calls fail, in every invocation they make
Scripts ==
    {[c \in RunCalls |-> IF c \in failing THEN max_retries ELSE 0] :
        failing \in {S \in SUBSET RunCalls : Cardinality(S) <= MaxScripted}}

\* curation through run_vlm_curation with one feature on a scripted handle
InitDet ==
    /\ InitRun
    /\ variant = "curation"
    /\ entry = "run_vlm"
    /\ len_feature = 1
    /\ ~with_metrics
    /\ num_workers % ReviewerDivisor = 0
    /\ good_ids = <<>>
    /\ bad_ids = <<>>
    /\ outcomes \in Scripts
    /\ faults_left = Cardinality({c \in RunCalls : outcomes[c] > 0})

SpecDet == InitDet /\ [][Next]_vars

\* the scripts in which every call fails the same number of times
UniformScripts == {[c \in RunCalls |-> n] : n \in {0, 1, max_retries}}

\* one curation unit with one feature on a scripted handle, from no failure
\* at all to every invocation of every call failing
InitRetry ==
    /\ InitRun
    /\ variant = "curation"
    /\ entry = "run_vlm"
    /\ unit_ids = <<1>>
    /\ len_feature = 1
    /\ ~with_metrics
    /\ num_workers = ReviewerDivisor
    /\ good_ids = <<>>
    /\ bad_ids = <<>>
    /\ outcomes \in UniformScripts \cup Scripts
    /\ faults_left = Cardinality({c \in RunCalls : outcomes[c] > 0})

SpecRetry == InitRetry /\ [][Next]_vars

\* run_vlm_curation with few-shot lists over the units of the analyzer, one
\* feature, one unit at a time, a scripted model handle whose first
\* invocation fails
InitShots ==
    /\ InitRun
    /\ variant = "curation"
    /\ entry = "run_vlm"
    /\ len_feature = 1
    /\ ~with_metrics
    /\ num_workers = ReviewerDivisor
    /\ good_ids \in ShotLists
    /\ bad_ids \in ShotLists
    /\ outcomes = [c \in RunCalls |->
                      IF c = <<unit_ids[1], 1, 1>> THEN 1 ELSE 0]
    /\ faults_left = 1

SpecShots == InitShots /\ [][Next]_vars

\* the steps the event loop takes by itself: code between two awaits, the end
\* of a sleep, the resumption of a gather whose awaitables are done
EngineStep ==
    \/ RunVlm
    \/ AsyncRun
    \/ EnterBatch
    \/ StartChunk
    \/ \E c \in CallIds : Retry(c)
    \/ \E u \in 1..MaxUnits, r \in 1..NumReviewers : StartSynthesis(u, r)
    \/ \E u \in 1..MaxUnits : FinishUnit(u)
    \/ CollectChunk
    \/ ReturnTable

\* a model invocation comes back, with a response or with an exception
InvocationEnds == \E c \in CallIds : Return(c) \/ Raise(c)

\* the runs through run_vlm_curation / run_vlm_merge with one feature and
\* without metrics, over every worker budget
InitLive == Init /\ len_feature = 1 /\ ~with_metrics

\* the batch on an event loop that runs every ready task, with a model handle
\* whose invocations all end
SpecLive ==
    InitLive /\ [][Next]_vars /\ WF_vars(EngineStep) /\ WF_vars(InvocationEnds)

\* ------------------------------------------- aggregate_results on its own
Classifications == {"Good", "Bad", "Error"}

\* quality scores the model may answer, in hundredths; 120 is out of range
ScoreSet == {0, 20, 50, 80, 90, 100, 120}

\* the judgments a synthesis call may return
ModelJudgments ==
    {[classification |-> c, unit_quality_score |-> q, reasoning |-> "why"] :
        c \in Classifications, q \in ScoreSet}

\* the reviews gathered by async_run_with_reviewers when the synthesis calls
\* of the reviewers in `degraded` ran out of retries
GatheredReviews(degraded) ==
    {rv \in [1..NumReviewers ->
               [reviewer_id : 1..NumReviewers,
                response : ModelJudgments \cup {SentinelJudgment}]] :
        \A r \in 1..NumReviewers :
            /\ rv[r].reviewer_id = r
            /\ (r \in degraded) <=> (rv[r].response = SentinelJudgment)}

InitAgg ==
    /\ variant = "curation"
    /\ entry = "async_run"
    /\ unit_ids = <<1>>
    /\ len_feature = 1
    /\ has_metrics = FALSE
    /\ with_metrics = FALSE
    /\ metrics_index = <<>>
    /\ good_ids = <<>>
    /\ bad_ids = <<>>
    /\ fewshot_messages = <<>>
    /\ input_message = <<>>
    /\ num_workers = ReviewerDivisor
    /\ faults_left = 0
    /\ pc = "start"
    /\ batch_size = 0
    /\ i = 1
    /\ permits = 0
    /\ unit = [u \in Units |-> "pending"]
    /\ call = <<>>
    /\ report = <<>>
    /\ review = <<>>
    /\ unitRes = <<>>
    /\ progress = 0
    /\ results = <<>>
    /\ results_df = EmptyTable
    /\ \E degraded \in SUBSET (1..NumReviewers) :
          \E rv \in GatheredReviews(degraded) :
             reviews_in = [reviews |-> rv, unit_id |-> 1, degraded |-> degraded]
    /\ agg_out = <<>>
    /\ outcomes = <<>>

\* aggregated_result = aggregate_results(reviews, unit_id)
Aggregate ==
    /\ agg_out = <<>>
    /\ agg_out' = <<aggregate_results(reviews_in.reviews, reviews_in.unit_id)>>
    /\ UNCHANGED <<reviews_in, input_message, outcomes>>
    /\ UNCHANGED batchVars

NextAgg == Aggregate

SpecAgg == InitAgg /\ [][NextAgg]_vars

\* ------------------------------------- the message lists on their own
\* async_run called with few-shot lists of the caller
InitFewshot ==
    /\ variant \in Variants
    /\ entry = "async_run"
    /\ unit_ids \in {[j \in 1..n |-> j] : n \in 1..MaxUnits}
    /\ len_feature \in 1..MaxFeatures
    /\ has_metrics = FALSE
    /\ with_metrics = FALSE
    /\ metrics_index = <<>>
    /\ good_ids \in ShotLists
    /\ bad_ids \in ShotLists
    /\ fewshot_messages = <<>>
    /\ num_workers = ReviewerDivisor * len_feature
    /\ faults_left = 0
    /\ pc = "async_run"
    /\ batch_size = 0
    /\ i = 1
    /\ permits = 0
    /\ unit = [u \in Units |-> "pending"]
    /\ call = <<>>
    /\ report = <<>>
    /\ review = <<>>
    /\ unitRes = <<>>
    /\ progress = 0
    /\ results = <<>>
    /\ results_df = EmptyTable
    /\ input_message = <<>>
    /\ reviews_in = NoReviews
    /\ agg_out = <<>>
    /\ outcomes = <<>>

\* the process_feature tasks of one unit, each up to its retry loop
BuildInputMessage(u) ==
    /\ pc = "start"
    /\ u \in Units
    /\ \A f \in Features : <<u, f>> \notin DOMAIN input_message
    /\ input_message' = Extend(input_message,
                           [uf \in {u} \X Features |-> FeatureInput(u, uf[2])])
    /\ UNCHANGED <<reviews_in, agg_out, outcomes>>
    /\ UNCHANGED batchVars

NextFewshot ==
    \/ AsyncRun
    \/ \E u \in 1..MaxUnits : BuildInputMessage(u)

SpecFewshot == InitFewshot /\ [][NextFewshot]_vars

\* ================================================================ claims

Ascending(seq) == \A j \in 1..(Len(seq) - 1) : seq[j] < seq[j + 1]

IsSentinelResult(c) ==
    IF c[3] # SynthSlot
    THEN c \in DOMAIN report /\ report[c] = ""
    ELSE /\ <<c[1], c[2]>> \in DOMAIN review
         /\ review[<<c[1], c[2]>>].reviewer_id = c[2]
         /\ review[<<c[1], c[2]>>].response.classification = "Error"
         /\ review[<<c[1], c[2]>>].response.unit_quality_score = 0
         /\ review[<<c[1], c[2]>>].response.reasoning = ""

\* C2: a dispatcher call (per-feature, metrics, curation synthesis) whose
\* every invocation raised has ended only after exactly 10 invocations, and
\* then it has returned its sentinel (empty report; judgment Error, score 0,
\* empty reasoning, reviewer id kept) and nothing was raised to the batch;
\* no call is invoked more than 10 times.
C2_RetryThenDegrade ==
    \A c \in DOMAIN call :
        /\ call[c].inv <= 10
        /\ (call[c].st = "done" /\ call[c].attempt = call[c].inv) =>
              /\ call[c].inv = 10
              /\ IsSentinelResult(c)
              /\ pc # "raised"
        /\ call[c].attempt = 10 => call[c].st = "done"

C2_Witness ==
    \E c \in DOMAIN call :
        /\ variant = "curation"
        /\ c[3] = SynthSlot
        /\ call[c].st = "done"
        /\ call[c].inv = 10
        /\ call[c].attempt = 10

\* the metrics table, if any, has one row per unit, in the order of the units
MetricsAligned == has_metrics => metrics_index = unit_ids

\* C3: with num_workers >= 3 * number of features, no pattern of model
\* exceptions makes the curation batch raise, and the returned table has
\* exactly one consensus record per unit.
C3_FailuresAbsorbed ==
    (variant = "curation" /\ num_workers >= 3 * len_feature /\ MetricsAligned) =>
        /\ pc # "raised"
        /\ pc = "returned" =>
              /\ Len(results_df.rows) = Len(unit_ids)
              /\ \A u \in Units :
                    Cardinality({j \in 1..Len(results_df.rows) :
                                    results_df.rows[j].unit_ids = u}) = 1

C3_Witness ==
    /\ variant = "curation"
    /\ pc = "returned"
    /\ Len(unit_ids) = 2
    /\ \E j \in 1..Len(results_df.rows) :
          results_df.rows[j].reviewer_class[1] = "Error"
    /\ \E j \in 1..Len(results_df.rows) :
          \A r \in 1..3 : results_df.rows[j].reviewer_class[r] = "Good"

\* C4: in a curation batch the number of model invocations in flight never
\* exceeds num_workers.
C4_InFlightWithinBudget ==
    variant = "curation" => Cardinality(InFlightCalls) <= num_workers

\* C5: in the curation run_in_batch the number of units in flight never
\* exceeds floor(num_workers / (3 * number of features)).
C5_UnitsInFlightBounded ==
    variant = "curation" =>
        Cardinality(InFlightUnits) <= num_workers \div (3 * len_feature)

C5_Witness ==
    /\ variant = "curation"
    /\ Cardinality(InFlightUnits) = 2
    /\ num_workers \div (3 * len_feature) = 2

C7_EveryBudgetRuns ==
    MetricsAligned =>
        /\ pc # "raised"
        /\ pc = "returned" => Len(results_df.rows) = Len(unit_ids)

AggClasses == [r \in 1..3 |-> reviews_in.reviews[r].response.classification]
AggScores == [r \in 1..3 |-> reviews_in.reviews[r].response.unit_quality_score]

\* C8: final_classification is Good exactly when at least 2 of the 3
\* reviewer classifications are Good and Bad otherwise; Error never counts
\* as Good; [Good, Good, Bad] -> Good, [Good, Bad, Bad] -> Bad,
\* [Good, Error, Bad] -> Bad.
C8_MajorityVote ==
    agg_out # <<>> =>
        LET final == agg_out[1].final_classification
            two_good == \E a, b \in 1..3 :
                          a # b /\ AggClasses[a] = "Good" /\ AggClasses[b] = "Good"
        IN  /\ final \in {"Good", "Bad"}
            /\ (final = "Good") <=> two_good
            /\ AggClasses = <<"Good", "Good", "Bad">> => final = "Good"
            /\ AggClasses = <<"Good", "Bad", "Bad">> => final = "Bad"
            /\ AggClasses = <<"Good", "Error", "Bad">> => final = "Bad"

C8_Witness ==
    /\ agg_out # <<>>
    /\ AggClasses = <<"Good", "Error", "Bad">>
    /\ agg_out[1].final_classification = "Bad"

\* C9: average_score is the mean of the three reviewer scores rounded to 2
\* decimals (the hundredth nearest to the mean); [0.2, 0.5, 0.9] gives 0.53;
\* scores in [0,1] give an average in [0,1].
C9_AverageScore ==
    agg_out # <<>> =>
        LET avg == agg_out[1].average_score
            total == AggScores[1] + AggScores[2] + AggScores[3]
            diff == IF 3 * avg >= total THEN 3 * avg - total ELSE total - 3 * avg
        IN  /\ 2 * diff <= 3
            /\ AggScores = <<20, 50, 90>> => avg = 53
            /\ (\A r \in 1..3 : AggScores[r] \in 0..100) => avg \in 0..100

C9_Witness ==
    /\ agg_out # <<>>
    /\ AggScores = <<20, 50, 90>>
    /\ agg_out[1].average_score = 53

\* C10 as claimed: a unit whose reviewers' synthesis calls all ran out of
\* retries is reported with classification Error, not Bad.
C10_DegradedUnitIsError ==
    (agg_out # <<>> /\ reviews_in.degraded = 1..3) =>
        agg_out[1].final_classification = "Error"

\* C10 as amended: every reviewer whose synthesis call ran out of retries is
\* reported with reviewer class Error and reviewer score 0, and a unit whose
\* three reviewers all degraded has average_score 0 and final_classification
\* Bad; final_classification is never Error.
C10_DegradedUnitIsBadWithErrorReviewers ==
    agg_out # <<>> =>
        /\ \A r \in reviews_in.degraded :
              /\ agg_out[1].reviewer_class[r] = "Error"
              /\ agg_out[1].reviewer_score[r] = 0
        /\ reviews_in.degraded = 1..3 =>
              /\ agg_out[1].final_classification = "Bad"
              /\ agg_out[1].average_score = 0
        /\ agg_out[1].final_classification # "Error"

C10_Witness ==
    /\ agg_out # <<>>
    /\ reviews_in.degraded = 1..3
    /\ agg_out[1].final_classification = "Bad"

\* the rows a curation unit gets when every one of its calls returned a
\* genuine response
GenuineRows(u) ==
    {aggregate_results([r \in 1..NumReviewers |->
                           [reviewer_id |-> r, response |-> j[r]]], u) :
        j \in [1..NumReviewers -> GenuineJudgments]}

\* the per-feature and metrics calls of unit u that degraded to ""
DegradedReports(u) ==
    {c \in DOMAIN report : c[1] = u /\ report[c] = SentinelReport}

\* C11: whenever a per-feature or metrics call of a curation unit ran out of
\* retries and degraded to the empty report, the row the unit gets in the
\* result table differs from every row the unit gets when its calls
\* genuinely succeeded.
C11_DegradedRowDistinguishable ==
    [][\A u \in Units :
          (/\ variant = "curation"
           /\ unit[u] = "running"
           /\ unit'[u] = "done"
           /\ DegradedReports(u) # {}) => unitRes'[u] \notin GenuineRows(u)]_vars

\* the calls of reviewer r of unit u that carry the metrics system context
MetricsCalls(u, r) ==
    {c \in DOMAIN call :
        /\ c[1] = u
        /\ c[2] = r
        /\ call[c].input[1] = SystemMessages("metrics")[1]}

\* C12: in run_vlm_curation, with with_metrics=False no metrics call is ever
\* issued although the analyzer holds quality metrics; with with_metrics=True
\* each of the 3 reviewers of every unit in flight has issued, together with
\* its per-feature calls, exactly one metrics call, whose text is the
\* rendering of that unit's own metrics row.
C12_MetricsGating ==
    (entry = "run_vlm" /\ variant = "curation") =>
        /\ ~with_metrics =>
              /\ ~has_metrics
              /\ \A u \in Units, r \in 1..3 : MetricsCalls(u, r) = {}
        /\ with_metrics =>
              \A u \in InFlightUnits, r \in 1..3 :
                 /\ Cardinality(MetricsCalls(u, r)) = 1
                 /\ \A f \in 1..len_feature : <<u, r, f>> \in DOMAIN call
                 /\ \A c \in MetricsCalls(u, r) :
                       /\ Len(call[c].input) = 2
                       /\ call[c].input[2].content[1].text =
                             <<"These are the quality metrics of this unit">>
                             \o MetricsText(QualityMetrics(u))

C12_Witness ==
    /\ entry = "run_vlm"
    /\ with_metrics
    /\ unit_ids = <<2, 1>>
    /\ InFlightUnits = {1}
    /\ Cardinality(MetricsCalls(1, 3)) = 1
    /\ \A u \in Units, r \in 1..3 : <<u, r, SynthSlot>> \in DOMAIN call =>
          call[<<u, r, SynthSlot>>].input[1] # SystemMessages("metrics")[1]

\* the non-empty few-shot lists, good before bad, with their captions
ShotCategories ==
    (IF good_ids # <<>>
     THEN <<[caption |-> "These are Good examples", ids |-> good_ids]>>
     ELSE <<>>)
    \o (IF bad_ids # <<>>
        THEN <<[caption |-> "These are Bad examples", ids |-> bad_ids]>>
        ELSE <<>>)

\* C13: with empty good and bad lists every per-feature message list is
\* exactly [system context, task message]; otherwise it holds, between the
\* system context and the task message, exactly one few-shot message per
\* non-empty category (good before bad), each holding exactly the artifacts
\* of the listed identifiers for that feature, in list order.
C13_FewshotAdditive ==
    \A uf \in DOMAIN input_message :
        LET m == input_message[uf]
            shots == SubSeq(m, 2, Len(m) - 1)
        IN  /\ Len(m) >= 2
            /\ m[1].role = "system"
            /\ m[Len(m)].role = "human"
            /\ Len(m[Len(m)].content) = 2
            /\ m[Len(m)].content[2].image =
                  [id |-> uf[1], cols |-> <<uf[2]>>, form |-> "encoded"]
            /\ (good_ids = <<>> /\ bad_ids = <<>>) => Len(m) = 2
            /\ Len(shots) = Len(ShotCategories)
            /\ \A j \in 1..Len(shots) :
                  LET imgs == Tail(shots[j].content)
                      ids == ShotCategories[j].ids
                  IN  /\ shots[j].role = "human"
                      /\ shots[j].content[1].type = "text"
                      /\ shots[j].content[1].text = <<ShotCategories[j].caption>>
                      /\ Len(imgs) = Len(ids)
                      /\ \A n \in 1..Len(imgs) :
                            /\ imgs[n].type = "image_url"
                            /\ imgs[n].image =
                                  [id |-> ids[n], cols |-> <<uf[2]>>,
                                   form |-> "encoded"]

C13_Witness ==
    /\ good_ids = <<2, 1>>
    /\ bad_ids = <<1>>
    /\ <<2, 2>> \in DOMAIN input_message
    /\ Len(input_message[<<2, 2>>]) = 4
    /\ Len(input_message[<<2, 2>>][2].content) = 3

\* every gathered call of reviewer r of unit u has ended: with a report of
\* the model, or with its retries exhausted
GatheredCallsEnded(u, r) ==
    \A k \in GatheredSlots :
        /\ <<u, r, k>> \in DOMAIN call
        /\ call[<<u, r, k>>].st = "done"

\* C14: within one reviewer pass (curation and merge) the synthesis call is
\* issued only after every per-feature call, and the metrics call if any, of
\* that reviewer has returned a report or has run out of retries and degraded;
\* once they all have ended, degraded or not, the synthesis call can be issued.
C14_SynthesisAfterGather ==
    /\ \A c \in DOMAIN call :
          c[3] = SynthSlot =>
              /\ GatheredCallsEnded(c[1], c[2])
              /\ \A k \in GatheredSlots : <<c[1], c[2], k>> \in DOMAIN report
    /\ \A u \in InFlightUnits, r \in Reviewers :
          (/\ pc = "await"
           /\ GatheredCallsEnded(u, r)
           /\ <<u, r, SynthSlot>> \notin DOMAIN call) =>
              ENABLED StartSynthesis(u, r)

C14_Witness ==
    \E c \in DOMAIN call :
        /\ variant = "merge"
        /\ c[3] = SynthSlot
        /\ len_feature = 2
        /\ report[<<c[1], c[2], 1>>] = ""
        /\ call[<<c[1], c[2], 1>>].attempt = 10
        /\ report[<<c[1], c[2], 2>>] # ""

\* the units whose limited_task has returned
DoneUnits == {u \in Units : unit[u] = "done"}

\* C15: the progress indicator never decreases; it advances by exactly one
\* in the step that completes a unit's full ensemble and in no other step
\* (not when a sub-call completes); at every moment it equals the number of
\* completed units, and once the batch is over it equals the number of units,
\* its declared total.
C15_ProgressCountsUnits ==
    /\ [](progress = Cardinality(DoneUnits))
    /\ []((pc \in {"gathered", "returned"}) =>
             (progress = Len(unit_ids) /\ progress = ProgressTotal))
    /\ [][\/ progress' = progress /\ DoneUnits' = DoneUnits
          \/ /\ progress' = progress + 1
             /\ \E u \in Units \ DoneUnits : DoneUnits' = DoneUnits \cup {u}]_vars

C15_Witness ==
    /\ variant = "curation"
    /\ Len(unit_ids) = 2
    /\ progress = 1
    /\ Cardinality(DoneUnits) = 1
    /\ \E c \in DOMAIN call : c[3] = SynthSlot /\ call[c].st = "done"

\* the reviewer ids of the calls of unit u
ReviewerIdsOf(u) == {c[2] : c \in {d \in DOMAIN call : d[1] = u}}

\* C16: every curation unit in flight has exactly the three reviewer passes
\* 1, 2 and 3, all started together (each has issued its gathered calls) and
\* with the same inputs; every consensus record has reviewer_i_score and
\* reviewer_i_class for i = 1, 2, 3 and a combined_reasoning that lists the
\* rationales of reviewers 1, 2, 3 in that order, whatever the order in which
\* the reviewers finished.
C16_ThreeReviewersInOrder ==
    variant = "curation" =>
        /\ pc = "await" =>
              \A u \in InFlightUnits :
                 /\ ReviewerIdsOf(u) = {1, 2, 3}
                 /\ \A r \in {1, 2, 3}, k \in GatheredSlots :
                       /\ <<u, r, k>> \in DOMAIN call
                       /\ call[<<u, r, k>>].input = call[<<u, 1, k>>].input
        /\ \A u \in DOMAIN unitRes :
              /\ DOMAIN unitRes[u].reviewer_score = {1, 2, 3}
              /\ DOMAIN unitRes[u].reviewer_class = {1, 2, 3}
              /\ Len(unitRes[u].combined_reasoning) = 3
              /\ \A j \in 1..3 :
                    /\ unitRes[u].combined_reasoning[j][1] = j
                    /\ (unitRes[u].combined_reasoning[j][2] = "") <=>
                          (unitRes[u].reviewer_class[j] = "Error")

C16_Witness ==
    \E u \in DOMAIN unitRes :
        /\ variant = "curation"
        /\ unitRes[u].combined_reasoning = <<<<1, "ok">>, <<2, "ok">>, <<3, "">>>>
        /\ unitRes[u].reviewer_class[3] = "Error"
        /\ unitRes[u].reviewer_score[1] = 80

\* the dispatcher calls of unit or group u
CallsOf(u) == {c \in DOMAIN call : c[1] = u}

\* C17: the merge engine runs one pass per candidate group: no call belongs
\* to a second or third reviewer, and when a group none of whose calls failed
\* completes, exactly F per-feature calls and one synthesis call were made
\* for it, each invoked once, and the group's record is the judgment of
\* that synthesis call (merge_type, reasoning), without any vote.
C17_MergeSinglePass ==
    /\ [](variant = "merge" => \A c \in DOMAIN call : c[2] = 1)
    /\ [][\A g \in Units :
             (/\ variant = "merge"
              /\ unit[g] = "running"
              /\ unit'[g] = "done"
              /\ \A c \in CallsOf(g) : call[c].attempt = 0) =>
                 /\ CallsOf(g) = {<<g, 1, k>> : k \in 0..len_feature}
                 /\ Cardinality(CallsOf(g)) = len_feature + 1
                 /\ \A c \in CallsOf(g) : call[c].inv = 1
                 /\ unitRes'[g].group_id = g
                 /\ \E j \in GenuineMergeJudgments :
                       /\ unitRes'[g].merge_type = j.merge_type
                       /\ unitRes'[g].reasoning = j.reasoning]_vars

C17_Witness ==
    \E g \in DOMAIN unitRes :
        /\ variant = "merge"
        /\ len_feature = 2
        /\ faults_left = MaxFaulty
        /\ unitRes[g].merge_type = "merge"
        /\ unitRes[g].reasoning = "same"

\* async_run has executed its statements before asyncio.run
PastAsyncRunPreamble == pc \notin {"run_vlm", "async_run"}

\* C18 as claimed: given a metrics table whose length differs from the
\* artifact table's, the curation async_run performs no precondition check
\* and proceeds to dispatch the batch.
C18_NoMetricsValidation ==
    (/\ variant = "curation"
     /\ has_metrics
     /\ Len(metrics_index) # Len(unit_ids)
     /\ PastAsyncRunPreamble) => pc # "raised"

\* C18 as amended: the curation async_run checks the length of a supplied
\* metrics table and nothing else about it: a table whose length differs from
\* the artifact table's is rejected before run_in_batch is entered and before
\* any model call, while a table of the same length whose index differs from
\* the unit identifiers passes the check and the batch is dispatched.
C18_OnlyMetricsLengthChecked ==
    (variant = "curation" /\ has_metrics /\ PastAsyncRunPreamble) =>
        /\ Len(metrics_index) # Len(unit_ids) =>
              /\ pc = "raised"
              /\ DOMAIN fewshot_messages = {}
              /\ call = <<>>
              /\ permits = 0
              /\ \A u \in Units : unit[u] = "pending"
        /\ (Len(metrics_index) = Len(unit_ids) /\ metrics_index # unit_ids) =>
              /\ DOMAIN fewshot_messages # {}
              /\ pc = "raised" => permits > 0

C18_Witness ==
    /\ entry = "async_run"
    /\ variant = "curation"
    /\ Len(unit_ids) = 2
    /\ Len(metrics_index) = 1
    /\ pc = "raised"
    /\ call = <<>>

\* the image payloads inside the messages of call c
ImagesSent(c) ==
    {call[c].input[m].content[p].image :
        <<m, p>> \in {mp \in (1..Len(call[c].input)) \X (1..(MaxShots + 2)) :
                        /\ mp[2] <= Len(call[c].input[mp[1]].content)
                        /\ call[c].input[mp[1]].content[mp[2]].type = "image_url"}}

\* the payloads of the artifact table
TablePayloads == {Payload(u, f) : u \in Units, f \in Columns}

\* C19 as claimed: in both engines every image payload inside a model-call
\* message is a payload of the artifact table, forwarded unchanged: the
\* engine never decodes or transforms an encoded image.
C19_PayloadsOpaque ==
    \A c \in DOMAIN call :
        \A img \in ImagesSent(c) :
            /\ img.form = "encoded"
            /\ img \in TablePayloads

\* C19 as amended: the payloads of the per-feature calls (task image and
\* few-shot images) are payloads of the artifact table forwarded unchanged, in
\* both engines, and the metrics and curation synthesis calls carry no image;
\* the synthesis call of the merge engine carries one image, the composite the
\* engine built by decoding and re-encoding the images of the group's row.
C19_OnlyMergeCompositeTransformed ==
    \A c \in DOMAIN call :
        IF c[3] \in 1..len_feature
        THEN /\ ImagesSent(c) \subseteq TablePayloads
             /\ call[c].input[Len(call[c].input)].content[2].image =
                   [id |-> c[1], cols |-> <<c[3]>>, form |-> "encoded"]
        ELSE IF variant = "merge" /\ c[3] = SynthSlot
        THEN /\ Cardinality(ImagesSent(c)) = 1
             /\ \A img \in ImagesSent(c) :
                   /\ img.form = "jpeg-composite"
                   /\ img.id = c[1]
                   /\ img \notin TablePayloads
        ELSE ImagesSent(c) = {}

C19_Witness ==
    \E c \in DOMAIN call :
        /\ variant = "merge"
        /\ c[3] = SynthSlot
        /\ call[c].st = "inflight"
        /\ \E img \in ImagesSent(c) : img.form = "jpeg-composite"

\* the merge record keeps the group's units and the text given to the
\* synthesis call
MergeRecordAuditable(g) ==
    /\ unitRes'[g].group_id = g
    /\ unitRes'[g].merge_units = MergeUnitGroup(g)
    /\ unitRes'[g].report = Content(g, 1)

\* C20: for every merge group the record's report field holds the full
\* concatenation of the group's per-feature reports and its merge_units field
\* holds the group's unit list, whether the synthesis call succeeded or ran
\* out of retries.
C20_MergeRecordKeepsReport ==
    [][\A g \in Units :
          (variant = "merge" /\ unit[g] = "running" /\ unit'[g] = "done") =>
              MergeRecordAuditable(g)]_vars

\* the position of unit u in the task list
PositionOf(u) == CHOOSE j \in 1..Len(unit_ids) : unit_ids[j] = u

\* C21: units are released in consecutive chunks of batch_size with a barrier
\* between chunks: while a chunk is awaited every unit before it is done and
\* collected, every unit after it is pending and has issued no invocation,
\* and only units of the chunk have calls; the result list is extended only
\* at a barrier, by the results of the whole chunk in task order, when no
\* unit is in flight.
C21_ChunkBarrier ==
    /\ []((pc \in {"dispatch", "await", "gathered", "returned"}) =>
            /\ Len(results) = Min(i, Len(unit_ids) + 1) - 1
            /\ \A u \in Units :
                  /\ PositionOf(u) < i => unit[u] = "done"
                  /\ PositionOf(u) >= i + batch_size => unit[u] = "pending"
                  /\ unit[u] = "running" => (pc = "await" /\ u \in ChunkUnits)
            /\ \A c \in DOMAIN call :
                  /\ pc = "await"
                  /\ c[1] \in ChunkUnits)
    /\ [][results' # results =>
             /\ InFlightUnits = {}
             /\ \A u \in ChunkUnits : unit[u] = "done"
             /\ Len(results') = Len(results) + Len(Chunk)
             /\ \A j \in 1..Len(Chunk) :
                   RowId(results'[Len(results) + j]) = Chunk[j]]_vars

C21_Witness ==
    /\ Len(unit_ids) = 2
    /\ batch_size = 1
    /\ pc = "await"
    /\ i = 2
    /\ Len(results) = 1
    /\ unit[unit_ids[1]] = "done"
    /\ unit[unit_ids[2]] = "running"
    /\ \E c \in DOMAIN call : c[1] = unit_ids[2] /\ call[c].st = "inflight"

\* the retry bookkeeping of a call that is still running or has ended:
\* one pause per failure that was not the last one allowed, every pause of
\* the same length, one invocation more than pauses once the pause is over
RetryCounts(r) ==
    /\ r.inv \in 1..max_retries
    /\ \A j \in 1..Len(r.pauses) : r.pauses[j] = retry_delay
    /\ r.st = "sleep" => (Len(r.pauses) = r.attempt /\ r.inv = r.attempt)
    /\ r.st = "inflight" => (Len(r.pauses) = r.attempt /\ r.inv = r.attempt + 1)
    /\ r.st = "done" =>
          /\ r.inv = Len(r.pauses) + 1
          /\ r.attempt \in {r.inv - 1, max_retries}
          /\ r.attempt = max_retries => (r.inv = max_retries
                                         /\ Len(r.pauses) = max_retries - 1)

\* the call returned what the model answered
GenuineOutcome(c) ==
    IF c[3] # SynthSlot THEN report[c] = GenuineReport(c[3])
    ELSE review[<<c[1], c[2]>>].response \in GenuineJudgments

\* the call returned the placeholder of its kind
SentinelOutcome(c) ==
    IF c[3] # SynthSlot THEN report[c] = SentinelReport
    ELSE review[<<c[1], c[2]>>].response = SentinelJudgment

\* C22: a call whose invocation first succeeds on attempt k returns that
\* genuine response after exactly k invocations and k-1 pauses and invokes
\* nothing more; a call that gives up has made 10 invocations and 9 pauses
\* (none after the 10th failure); every pause has the same length.
C22_FixedIntervalRetry ==
    /\ [](\A c \in DOMAIN call :
            /\ RetryCounts(call[c])
            /\ call[c].st = "done" =>
                  IF call[c].attempt = max_retries THEN SentinelOutcome(c)
                  ELSE GenuineOutcome(c))
    /\ [][\A c \in DOMAIN call :
            /\ (call[c].st = "done" /\ c \in DOMAIN call') => call'[c] = call[c]
            /\ (variant = "merge" /\ c[3] = SynthSlot /\ unit'[c[1]] = "done") =>
                  /\ call[c].st = "inflight"
                  /\ IF unitRes'[c[1]] = SentinelMergeRecord(c[1])
                     THEN /\ call[c].inv = max_retries
                          /\ Len(call[c].pauses) = max_retries - 1
                     ELSE /\ unitRes'[c[1]].merge_type \in
                                 {j.merge_type : j \in GenuineMergeJudgments}
                          /\ call[c].inv \in 1..max_retries]_vars

\* the seventh invocation of a call succeeded, after six pauses
C22_Witness ==
    \E c \in DOMAIN call :
        /\ call[c].st = "done"
        /\ call[c].inv = 7
        /\ Len(call[c].pauses) = 6
        /\ GenuineOutcome(c)

\* the batch is over: every chunk released, every unit done, the table built
BatchReturned ==
    /\ pc = "returned"
    /\ i > Len(unit_ids)
    /\ \A u \in Units : unit[u] = "done"
    /\ progress = Len(unit_ids)
    /\ Len(results) = Len(unit_ids)

\* C23: when every model invocation eventually returns or raises and
\* num_workers >= 3 * number of features (with a metrics table that has a row
\* for every unit), the batch eventually returns with every unit done, every
\* chunk released and the progress indicator at the number of units; and a
\* batch that has not ended and in which the event loop has nothing to run is
\* waiting for a model invocation that has not come back.
C23_BatchTerminates ==
    /\ (num_workers >= ReviewerDivisor * len_feature /\ MetricsAligned)
           ~> BatchReturned
    /\ []((pc \notin {"returned", "raised"} /\ ~ENABLED EngineStep)
             => InFlightCalls # {})

C23_Witness ==
    /\ BatchReturned
    /\ Len(unit_ids) = 2
    /\ batch_size = 1
    /\ faults_left = 0

\* the columns pasted into the composite image of the synthesis call c
CompositeColumns(c) ==
    {img.cols : img \in {x \in ImagesSent(c) : x.form = "jpeg-composite"}}

\* C24 as claimed: in the merge engine the composite image of the synthesis
\* call is built from exactly the artifacts of the requested features of the
\* group, also when the artifact table has columns for more features.
C24_CompositeOfRequestedFeatures ==
    \A c \in DOMAIN call :
        (variant = "merge" /\ c[3] = SynthSlot) =>
            CompositeColumns(c) = {[j \in 1..len_feature |-> j]}

\* the text of the report message of the synthesis call c
SynthesisText(c) ==
    LET msg == call[c].input[Len(call[c].input)] IN msg.content[1].text

\* the header, then every gathered report in slot order (the requested
\* features in list order, the metrics report last), each after a marker line
RECURSIVE MarkedReports(_, _, _)
MarkedReports(u, r, from) ==
    IF from \notin GatheredSlots THEN <<>>
    ELSE <<NewLine, Rule, NewLine, report[<<u, r, from>>]>>
         \o MarkedReports(u, r, from + 1)

\* C25 as claimed: the synthesis input of a reviewer lists the per-feature
\* reports in the order of the requested feature list (the metrics report
\* last in curation), each report preceded by the separating marker, whatever
\* the order in which the concurrent calls completed.
C25_ReportsInOrderEachMarked ==
    \A c \in DOMAIN call :
        c[3] = SynthSlot =>
            SynthesisText(c) = <<Header>> \o MarkedReports(c[1], c[2], 1)

\* what the scripted handle makes of reviewer r of unit u: the placeholder
\* when every invocation of the synthesis call raises, its answer otherwise
ScriptedReview(u, r) ==
    [reviewer_id |-> r,
     response |-> IF outcomes[<<u, r, SynthSlot>>] >= max_retries
                  THEN SentinelJudgment
                  ELSE ScriptedJudgment(<<u, r, SynthSlot>>)]

\* the row of unit u as a function of the script alone
ScriptedRow(u) ==
    aggregate_results([r \in 1..NumReviewers |-> ScriptedReview(u, r)], u)

\* the table as a function of the script alone: the identifiers are 1..n
ScriptedTable ==
    [index |-> [j \in 1..Len(unit_ids) |-> j],
     rows |-> [j \in 1..Len(unit_ids) |-> ScriptedRow(j)]]

\* C26: with the outcome of every model invocation fixed by (unit, reviewer,
\* feature-or-synthesis, attempt number), the curation result table is a
\* function of that assignment alone: every interleaving and completion order
\* of the concurrent calls returns the same table, and every unit's record is
\* the same whenever its task completes.
C26_TableDeterminedByOutcomes ==
    /\ \A u \in DOMAIN unitRes : unitRes[u] = ScriptedRow(u)
    /\ pc = "returned" => results_df = ScriptedTable

\* two units run concurrently, listed in descending order, and one reviewer's
\* synthesis call ran out of retries
C26_Witness ==
    /\ pc = "returned"
    /\ unit_ids = <<2, 1>>
    /\ batch_size = 2
    /\ \E c \in DOMAIN outcomes : c[3] = SynthSlot /\ outcomes[c] = max_retries
    /\ \E j \in 1..2 : \E r \in 1..NumReviewers :
          results_df.rows[j].reviewer_class[r] = "Error"

\* the invocations the calls in S have made
RECURSIVE Invocations(_)
Invocations(S) ==
    IF S = {} THEN 0
    ELSE LET c == CHOOSE x \in S : TRUE
         IN  call[c].inv + Invocations(S \ {c})

\* the invocations call c makes on its own script: one more than its failures,
\* and never more than max_retries
OwnInvocations(c) == Min(outcomes[c] + 1, max_retries)

\* the dispatcher calls of one curation unit: 3 reviewers x (F + M + 1)
CallsPerUnit == NumReviewers * (len_feature + (IF has_metrics THEN 1 ELSE 0) + 1)

\* C27: retry budgets are per call and independent: the number of invocations
\* of a call depends on the failures of that call alone; every call of a
\* curation unit is issued once (no unit-level or batch-level retry), so when
\* the unit completes its calls have made between 3*(F+M+1) and 30*(F+M+1)
\* invocations in total.
C27_RetryBudgetsPerCall ==
    /\ [](\A c \in DOMAIN call :
            /\ call[c].inv <= OwnInvocations(c)
            /\ call[c].st = "done" => call[c].inv = OwnInvocations(c))
    /\ [][\A u \in Units :
            /\ unit[u] = "done" => unit'[u] = "done"
            /\ (unit[u] = "running" /\ unit'[u] = "done") =>
                  /\ CallsOf(u) = {c \in RunCalls : c[1] = u}
                  /\ Cardinality(CallsOf(u)) = CallsPerUnit
                  /\ Invocations(CallsOf(u)) >= CallsPerUnit
                  /\ Invocations(CallsOf(u)) <= max_retries * CallsPerUnit]_vars

\* every call of the unit ran out of retries: 30*(F+M+1) invocations
C27_Witness ==
    /\ \A c \in RunCalls :
          c \in DOMAIN call /\ call[c].st = "done" /\ call[c].inv = max_retries
    /\ Invocations(DOMAIN call) = max_retries * CallsPerUnit
    /\ \A r \in Reviewers : <<1, r>> \in DOMAIN review

\* the reviewers whose synthesis call returned a judgment of class Good
GoodReviewers ==
    {r \in 1..NumReviewers :
        /\ r \notin reviews_in.degraded
        /\ reviews_in.reviews[r].response.classification = "Good"}

\* the scores of the reviewers in S, added up
RECURSIVE ScoreSum(_)
ScoreSum(S) ==
    IF S = {} THEN 0
    ELSE LET r == CHOOSE x \in S : TRUE
         IN  reviews_in.reviews[r].response.unit_quality_score + ScoreSum(S \ {r})

\* C28: a reviewer degraded to the placeholder judgment takes part in the
\* aggregation: a unit with two Good reviewers (scores s1, s2) and one degraded
\* reviewer is reported Good with average_score = round((s1 + s2 + 0) / 3, 2),
\* and the degraded reviewer keeps class Error and score 0 under its key.
C28_DegradedReviewerCounted ==
    (/\ agg_out # <<>>
     /\ Cardinality(reviews_in.degraded) = 1
     /\ Cardinality(GoodReviewers) = 2) =>
        /\ agg_out[1].final_classification = "Good"
        /\ agg_out[1].average_score =
              RoundHalfEven(ScoreSum(GoodReviewers) + 0, NumReviewers)
        /\ \A r \in reviews_in.degraded :
              /\ agg_out[1].reviewer_class[r] = "Error"
              /\ agg_out[1].reviewer_score[r] = 0
        /\ Len(agg_out[1].combined_reasoning) = NumReviewers

\* reviewers 1 and 3 Good with 0.80 and 0.90, reviewer 2 degraded: 0.57
C28_Witness ==
    /\ agg_out # <<>>
    /\ reviews_in.degraded = {2}
    /\ GoodReviewers = {1, 3}
    /\ reviews_in.reviews[1].response.unit_quality_score = 80
    /\ reviews_in.reviews[3].response.unit_quality_score = 90
    /\ agg_out[1].average_score = 57
    /\ agg_out[1].final_classification = "Good"

\* the units named as exemplars
Exemplars == Range(good_ids) \cup Range(bad_ids)

\* C29: run_vlm_curation looks the exemplars up in the artifact table
\* restricted to the units being processed, before any model call: no
\* invocation is issued before the few-shot messages are built; when an
\* exemplar lies outside the processed units the run fails with no invocation
\* issued and no unit started; otherwise every exemplar is a unit of the
\* batch and has a row in the returned table.
C29_ExemplarsAmongProcessedUnits ==
    /\ pc \in {"run_vlm", "async_run", "start"} => call = <<>>
    /\ (pc \notin {"run_vlm", "async_run"} /\ entry = "run_vlm"
        /\ variant = "curation") =>
          IF Exemplars \subseteq Units
          THEN /\ pc # "raised"
               /\ DOMAIN fewshot_messages = Features
               /\ pc = "returned" =>
                     Exemplars \subseteq Range(results_df.index)
          ELSE /\ pc = "raised"
               /\ call = <<>>
               /\ \A u \in Units : unit[u] = "pending"
               /\ fewshot_messages = <<>>

\* unit 2 of the analyzer is an exemplar but only unit 1 is processed
C29_Witness ==
    /\ pc = "raised"
    /\ unit_ids = <<1>>
    /\ good_ids = <<1>>
    /\ bad_ids = <<2>>
    /\ call = <<>>

\* the permits of run_in_batch.semaphore that are held
HeldPermits == num_workers - permits

\* C30: in run_in_batch of both engines the semaphore has num_workers permits
\* while at most num_workers // (3 * number of features) unit tasks exist at
\* once: the held permits are those of the running unit tasks, never more
\* than batch_size and always strictly fewer than num_workers, and the tasks
\* of a chunk about to be gathered all find a free permit; the chunked gather
\* alone limits concurrency.
C30_SemaphoreNeverBlocks ==
    (pc \in {"dispatch", "await", "gathered", "returned"}) =>
        /\ batch_size = num_workers \div (ReviewerDivisor * len_feature)
        /\ HeldPermits = Cardinality(InFlightUnits)
        /\ HeldPermits <= batch_size
        /\ HeldPermits < num_workers
        /\ pc = "dispatch" => (permits >= Len(Chunk) /\ ENABLED StartChunk)

\* two unit tasks hold two of six permits
C30_Witness ==
    /\ pc = "await"
    /\ num_workers = 6
    /\ batch_size = 2
    /\ Cardinality(InFlightUnits) = 2
    /\ HeldPermits = 2
    /\ permits = 4

====
